---- MODULE Spec2Model ----
(***************************************************************************)
(* Model of Ph.Sh_URL (src/main.go): the per-domain fan-out of the four    *)
(* source queriers, the retrying HTTP fetcher they share, the fan-in of    *)
(* results and log events, the accumulation of the global URL set and the  *)
(* failed-domain list, and the interrupt handler that flushes them.        *)
(***************************************************************************)
EXTENDS Integers, Sequences, FiniteSets, TLC

\* ------------------------------------------------------------------ bounds
MaxLines == 2       \* most input lines of a run (len(domains))
MaxEnabled == 2     \* most sources left enabled by the -e flag
MaxKeys == 2        \* most API keys configured for one source
MaxPages == 2       \* most pages the OTX server offers for one domain
MaxFaults == 3      \* most requests of a run that end in an error
MaxCalmLines == 3   \* most input lines of a run whose requests never fail

\* ------------------------------------------------------- program constants
retryAttempts == 3
ChanCap == 4

Sources == {"vt", "otx", "wayback", "hr"}
KeyedSources == {"vt", "otx", "hr"}

\* The Source tag a querier puts on its log messages.
Tag(s) ==
  CASE s = "vt" -> "VT"
    [] s = "otx" -> "OTX"
    [] s = "wayback" -> "Wayback"
    [] s = "hr" -> "HudsonRock"

\* --------------------------------------------------------------- Go slices
\* A []string is nil until the first append; "urls != nil" tells them apart.
NilSlice == [nil |-> TRUE, s |-> <<>>]

GoAppend(sl, x) == [nil |-> FALSE, s |-> Append(sl.s, x)]

RECURSIVE GoAppendAll(_, _)
GoAppendAll(sl, xs) ==
  IF xs = <<>> THEN sl ELSE GoAppendAll(GoAppend(sl, Head(xs)), Tail(xs))

IsNil(sl) == sl.nil

\* logMessage{Type, Source, Message}
LogMsg(type, s) == [Type |-> type, Source |-> Tag(s)]

\* ------------------------------------------------------- domain input lines
\* A line is a sequence of one-character strings.
Lower == {"a", "b", "c", "d", "e", "f", "g", "h", "i", "j", "k", "l", "m",
          "n", "o", "p", "q", "r", "s", "t", "u", "v", "w", "x", "y", "z"}
Upper == {"A", "B", "C", "D", "E", "F", "G", "H", "I", "J", "K", "L", "M",
          "N", "O", "P", "Q", "R", "S", "T", "U", "V", "W", "X", "Y", "Z"}
Digit == {"0", "1", "2", "3", "4", "5", "6", "7", "8", "9"}
Letter == Lower \cup Upper
AlNum == Letter \cup Digit
Space == {" ", "\t"}

RECURSIVE TrimLeft(_)
TrimLeft(l) == IF l # <<>> /\ Head(l) \in Space THEN TrimLeft(Tail(l)) ELSE l

RECURSIVE TrimRight(_)
TrimRight(l) ==
  IF l # <<>> /\ l[Len(l)] \in Space THEN TrimRight(SubSeq(l, 1, Len(l) - 1)) ELSE l

\* strings.TrimSpace
TrimSpace(l) == TrimRight(TrimLeft(l))

KeptByClean(c) == c \in AlNum \cup {".", "-"}

\* cleanDomainLine: drop every character outside [a-zA-Z0-9.-], then trim.
cleanDomainLine(l) == TrimSpace(SelectSeq(l, KeptByClean))

\* The labels of a line: the pieces between its dots.
RECURSIVE Labels(_, _)
Labels(l, cur) ==
  IF l = <<>> THEN <<cur>>
  ELSE IF Head(l) = "." THEN <<cur>> \o Labels(Tail(l), <<>>)
  ELSE Labels(Tail(l), Append(cur, Head(l)))

\* [a-z0-9]([a-z0-9-]{0,61}[a-z0-9])?  (case-insensitive)
IsLabel(lab) ==
  /\ Len(lab) >= 1
  /\ Len(lab) <= 63
  /\ lab[1] \in AlNum
  /\ lab[Len(lab)] \in AlNum
  /\ \A k \in 1..Len(lab) : lab[k] \in AlNum \cup {"-"}

\* [a-z]{2,}
IsTld(lab) == Len(lab) >= 2 /\ \A k \in 1..Len(lab) : lab[k] \in Letter

\* isValidDomain: (?i)^(label\.)+tld$
isValidDomain(d) ==
  LET labs == Labels(d, <<>>)
      n == Len(labs)
  IN /\ n >= 2
     /\ \A k \in 1..(n - 1) : IsLabel(labs[k])
     /\ IsTld(labs[n])

\* The lines the input is drawn from: two valid domains, a blank line, a line
\* that cleans to nothing, a line with no dot, and a line that is valid only
\* once cleaned.
SampleLines ==
  { <<"a", ".", "c", "o">>,
    <<" ", "b", ".", "i", "o">>,
    <<" ">>,
    <<"!", "!">>,
    <<"a", "b">> }

\* ------------------------------------------------------ the HTTP environment
\* What http.DefaultClient.Do can return.  A non-2xx status is not an error:
\* Do reports an error only for a transport failure (no response) or a failed
\* redirect policy (the last 3xx response together with the error).
StatusCodes == {200, 404, 429, 500}

\* A response body: wf says whether it parses as the JSON document the source
\* documents; rc is VirusTotal's response_code; items are the URL entries of a
\* JSON body and the lines of a text body ("" is an empty entry or a blank
\* line); more is OTX's has_next.
ItemLists == { <<>>, <<"u1">>, <<"", "u2">> }

ErrPage == [wf |-> FALSE, rc |-> 0, items |-> <<"e">>, more |-> FALSE]

\* What the remote servers of a run may do: the statuses they answer with,
\* the item lists of their well-formed bodies, whether they also send
\* malformed bodies, VirusTotal's response_code 0 and endless redirects, and
\* how many requests of the run may end in an error.
PlainServer ==
  [statuses |-> {200}, items |-> {<<>>, <<"u1">>, <<"u2">>}, odd |-> FALSE,
   errs |-> MaxFaults]
FanServer ==
  [statuses |-> {200}, items |-> {<<>>, <<"u1">>}, odd |-> FALSE, errs |-> MaxFaults]
AnyServer ==
  [statuses |-> StatusCodes, items |-> ItemLists, odd |-> TRUE, errs |-> MaxFaults]
CalmServer ==
  [statuses |-> {200}, items |-> {<<>>, <<"u1">>}, odd |-> FALSE, errs |-> 0]

OkBodies(srv, s, page) ==
  { [wf |-> TRUE, rc |-> rc, items |-> it, more |-> m] :
      rc \in (IF s = "vt" /\ srv.odd THEN {0, 1} ELSE {1}),
      it \in srv.items,
      m \in (IF s = "otx" /\ page < MaxPages THEN BOOLEAN ELSE {FALSE}) }

TransportError == [err |-> TRUE, hasResp |-> FALSE, status |-> 0, body |-> ErrPage]
RedirectError == [err |-> TRUE, hasResp |-> TRUE, status |-> 302, body |-> ErrPage]

Response(st, b) == [err |-> FALSE, hasResp |-> TRUE, status |-> st, body |-> b]

\* The outcomes of one request; nf is the number of failed requests so far.
Outcomes(srv, s, page, nf) ==
  (IF nf < srv.errs THEN {TransportError} ELSE {})
    \cup (IF nf < srv.errs /\ srv.odd THEN {RedirectError} ELSE {})
    \cup { Response(200, b) : b \in OkBodies(srv, s, page) }
    \cup (IF srv.odd THEN {Response(200, ErrPage)} ELSE {})
    \cup { Response(st, ErrPage) : st \in srv.statuses \ {200} }

\* How an outcome is remembered in a call's history.
Class(o) == IF ~o.hasResp THEN "transport" ELSE IF o.err THEN "redirect" ELSE ToString(o.status)

\* ------------------------------------------------- makeRequestWithRetry
\* The state of one call: i is the loop index, attempts the requests made,
\* sleeps the retry delays slept, warns the WARNING events sent, hist the
\* outcomes seen, ret how it returned
\* ("run" while looping; "ok" = (resp, nil); "clienterr" = (resp, err);
\* "exhausted" = (nil, err)).
NewCall ==
  [i |-> 0, attempts |-> 0, sleeps |-> 0, warns |-> 0, hist |-> <<>>, ret |-> "run"]

IsClientError(o) == o.hasResp /\ o.status >= 400 /\ o.status < 500

\* FetchStep as it would be if a 429 or 5xx response counted as a failed
\* attempt to be retried.
FetchStepRetrying(f, o, sil) ==
  LET g == [f EXCEPT !.attempts = @ + 1,
                     !.hist = Append(@, Class(o)),
                     !.warns = IF o.err /\ ~sil THEN @ + 1 ELSE @]
      failed == o.err \/ o.status = 429 \/ o.status >= 500
  IN IF ~failed
       THEN [f |-> [g EXCEPT !.ret = "ok"], logs |-> <<>>]
     ELSE IF IsClientError(o) /\ o.status # 429
       THEN [f |-> [g EXCEPT !.ret = "clienterr"],
             logs |-> IF sil THEN <<>> ELSE <<"WARNING", "ERROR">>]
     ELSE [f |-> [g EXCEPT !.sleeps = @ + 1,
                           !.i = @ + 1,
                           !.ret = IF f.i + 1 < retryAttempts THEN "run" ELSE "exhausted"],
           logs |-> IF sil THEN <<>> ELSE <<"WARNING">>]

\* FetchStep as it would be if the loop ran retryAttempts - 1 times.
FetchStepTwice(f, o, sil) ==
  LET g == [f EXCEPT !.attempts = @ + 1,
                     !.hist = Append(@, Class(o)),
                     !.warns = IF o.err /\ ~sil THEN @ + 1 ELSE @]
  IN IF ~o.err
       THEN [f |-> [g EXCEPT !.ret = "ok"], logs |-> <<>>]
     ELSE IF IsClientError(o)
       THEN [f |-> [g EXCEPT !.ret = "clienterr"],
             logs |-> IF sil THEN <<>> ELSE <<"WARNING", "ERROR">>]
     ELSE [f |-> [g EXCEPT !.sleeps = @ + 1,
                           !.i = @ + 1,
                           !.ret = IF f.i + 1 < retryAttempts - 1 THEN "run" ELSE "exhausted"],
           logs |-> IF sil THEN <<>> ELSE <<"WARNING">>]

\* One pass of the retry loop on outcome o; logs are the types of the log
\* messages the pass sends, in order.
FetchStep(f, o, sil) ==
  LET g == [f EXCEPT !.attempts = @ + 1,
                     !.hist = Append(@, Class(o)),
                     !.warns = IF o.err /\ ~sil THEN @ + 1 ELSE @]
  IN IF ~o.err
       THEN [f |-> [g EXCEPT !.ret = "ok"], logs |-> <<>>]
     ELSE IF IsClientError(o)
       THEN [f |-> [g EXCEPT !.ret = "clienterr"],
             logs |-> IF sil THEN <<>> ELSE <<"WARNING", "ERROR">>]
     ELSE [f |-> [g EXCEPT !.sleeps = @ + 1,
                           !.i = @ + 1,
                           !.ret = IF f.i + 1 < retryAttempts THEN "run" ELSE "exhausted"],
           logs |-> IF sil THEN <<>> ELSE <<"WARNING">>]

\* ------------------------------------------------------------ the queriers
NonEmpty(x) == x # ""

\* The URL list a querier builds from a successfully fetched body, appended
\* to acc (nil except for OTX's later pages).
ParseBody(s, acc, b) ==
  CASE s = "vt" ->
         IF b.wf /\ b.rc = 1 THEN GoAppendAll(acc, SelectSeq(b.items, NonEmpty)) ELSE acc
    [] s = "wayback" -> GoAppendAll(acc, SelectSeq(b.items, NonEmpty))
    [] s = "otx" -> IF b.wf THEN GoAppendAll(acc, b.items) ELSE acc
    [] s = "hr" -> IF b.wf THEN GoAppendAll(acc, b.items) ELSE acc

HasNext(s, b) == s = "otx" /\ b.wf /\ b.more

\* OnFetchError as it would be if the ERROR event ignored the silent flag.
OnFetchErrorLoud(s, qs, sil) ==
  [qs EXCEPT !.pc = "send",
             !.pend = @ \o <<"ERROR">>,
             !.res = NilSlice,
             !.ended = "err"]

\* What a querier does once the fetcher has failed: the ERROR event, then
\* the result it goes on to send.
OnFetchError(s, qs, sil) ==
  IF s = "otx"
    THEN [qs EXCEPT !.pc = "send",
                    !.pend = @ \o (IF sil THEN <<>> ELSE <<"ERROR", "SUCCESS">>),
                    !.res = qs.acc,
                    !.ended = "err",
                    !.found = Len(qs.acc.s)]
    ELSE [qs EXCEPT !.pc = "send",
                    !.pend = @ \o (IF sil THEN <<>> ELSE <<"ERROR">>),
                    !.res = NilSlice,
                    !.ended = "err"]

\* OnFetchOk as it would be if each page replaced the URLs of the pages
\* before it.
OnFetchOkLastPage(s, qs, b, sil) ==
  LET urls == ParseBody(s, NilSlice, b)
      got == IF s = "otx" THEN Append(qs.pages, [n |-> qs.page, body |-> b])
                          ELSE qs.pages
  IN IF HasNext(s, b)
       THEN [qs EXCEPT !.acc = urls, !.page = @ + 1, !.f = NewCall, !.pages = got]
       ELSE [qs EXCEPT !.pc = "send",
                       !.acc = urls,
                       !.pend = @ \o (IF sil THEN <<>> ELSE <<"SUCCESS">>),
                       !.res = urls,
                       !.ended = "ok",
                       !.found = Len(urls.s),
                       !.pages = got]

\* What a querier does with a response the fetcher returned without error;
\* pages remembers, for OTX, the page number and body of every response.
OnFetchOk(s, qs, b, sil) ==
  LET urls == ParseBody(s, qs.acc, b)
      got == IF s = "otx" THEN Append(qs.pages, [n |-> qs.page, body |-> b])
                          ELSE qs.pages
  IN IF HasNext(s, b)
       THEN [qs EXCEPT !.acc = urls, !.page = @ + 1, !.f = NewCall, !.pages = got]
       ELSE [qs EXCEPT !.pc = "send",
                       !.acc = urls,
                       !.pend = @ \o (IF sil THEN <<>> ELSE <<"SUCCESS">>),
                       !.res = urls,
                       !.ended = "ok",
                       !.found = Len(urls.s),
                       !.pages = got]

\* A response with a client-error status, or one whose body is not the
\* document the source documents.
IsBadResponse(o) == IsClientError(o) \/ (o.hasResp /\ ~o.err /\ ~o.body.wf)

\* A querier's state after one request of its current fetcher call.
AfterDo(s, qs, o, sil) ==
  LET r == FetchStep(qs.f, o, sil)
      q1 == [qs EXCEPT !.f = r.f, !.pend = @ \o r.logs, !.bad = IsBadResponse(o)]
  IN CASE r.f.ret = "run" -> q1
       [] r.f.ret = "ok" -> OnFetchOk(s, q1, o.body, sil)
       [] OTHER -> OnFetchError(s, q1, sil)

\* A querier goroutine: pc, its locals (page, acc = allUrls, pend = the log
\* messages it has yet to send, res = the result it is about to send, f = its
\* fetcher call, key = the key index it picked) and its history for the
\* current domain: sent and dones count its sends on the results channel and
\* its wg.Done calls, out is what it sent ("none", "absent" = nil, "list"),
\* ended how its query ended ("ok", "err", "nokey"), found the number of
\* URLs it extracted, bad whether the last response it got was a bad one and
\* logged the Types of the log messages it has sent, in order.
IdleQuerier ==
  [pc |-> "idle", page |-> 1, acc |-> NilSlice, pend |-> <<>>, res |-> NilSlice,
   f |-> NewCall, key |-> -1, sent |-> 0, dones |-> 0, out |-> "none",
   ended |-> "", found |-> 0, bad |-> FALSE, logged |-> <<>>, pages |-> <<>>]

\* PickKey as it would be if every domain used the first key.
PickKeyFirst(n, idx) == IF n = 0 THEN -1 ELSE 0

\* The key a keyed source picks: apiKeys[apiKeyIndex % len(apiKeys)].
PickKey(n, idx) == IF n = 0 THEN -1 ELSE idx % n

\* A querier's first steps, up to its first request: VT returns at once when
\* it has no key; reqErr says http.NewRequest failed.
AfterStart(s, qs, n, idx, reqErr, sil) ==
  IF s = "vt" /\ n = 0
    THEN [qs EXCEPT !.pc = "exit", !.ended = "nokey"]
  ELSE IF reqErr
    THEN OnFetchError(s, qs, sil)
  ELSE [qs EXCEPT !.pc = "fetch",
                  !.key = IF s \in KeyedSources THEN PickKey(n, idx) ELSE -1,
                  !.pend = IF s = "hr" /\ n = 0 /\ ~sil THEN <<"WARNING">> ELSE <<>>]

\* ------------------------------------------------------------------- state
VARIABLES
  silent,         \* the -silent flag
  excludedMap,    \* the sources named by -e
  keys,           \* len of each key list of the configuration
  nLines,         \* len(domains)
  server,         \* what the remote servers of this run may do
  oldUrls,        \* the lines of the -o file when the program starts
  faults,         \* history: the requests that ended in an error so far
  pc,             \* where the driver (main) is
  i,              \* index of the domain loop
  domain,         \* the cleaned line being processed
  apiKeyIndex,
  runCount,
  domainSuccess,
  finalUrlSet,
  failedDomains,
  urls,           \* what is left of the list the drain loop is merging
  finalUrls,      \* main's flattened list
  urlChannel,     \* buffered contents, oldest first
  logChan,
  urlClosed,
  logClosed,
  wg,             \* counter of the sources' wait-group
  logWg,          \* counter of the log consumer's wait-group
  logOut,         \* what the log consumer printed for the current domain:
                  \* for each Source tag, the Types of its lines, in order
  q,              \* the querier goroutines of the current domain
  hpc,            \* where the signal handler goroutine is
  hStart,         \* the map's keys when the handler's range loop began
  outFile,        \* the -o file
  failedFile,     \* failed_domains.txt
  stdout,         \* URLs printed to standard output
  proc,           \* "running", or how the process ended
  delivered,      \* history: every URL of every list sent on a results channel
  slept           \* history: the requestDelay sleeps main has performed

cfgVars == <<silent, excludedMap, keys, nLines, server, oldUrls>>
drvVars == <<pc, i, domain, apiKeyIndex, runCount, domainSuccess, urls, finalUrls>>
accVars == <<finalUrlSet, failedDomains>>
chanVars == <<urlChannel, logChan, urlClosed, logClosed, wg, logWg, logOut>>
hVars == <<hpc, hStart>>
fileVars == <<outFile, failedFile, stdout>>
vars == <<cfgVars, drvVars, accVars, chanVars, q, hVars, fileVars, proc, delivered,
          faults, slept>>

EnabledSources == Sources \ excludedMap

Tags == { Tag(s) : s \in Sources }

NoOutput == [tg \in Tags |-> <<>>]

NoFile == [exists |-> FALSE, lines |-> <<>>]

\* os.Create + one Fprintln per line: the file holds exactly these lines.
writeLinesToFile(lines) == [exists |-> TRUE, lines |-> lines]

\* The files of the run that exist: the program creates files only through
\* writeLinesToFile, at the -o path and at failed_domains.txt.
FilesPresent(out, failed) ==
  (IF out.exists THEN {"-o"} ELSE {})
    \cup (IF failed.exists THEN {"failed_domains.txt"} ELSE {})

\* Whether os.Create succeeds is the file system's choice at each call.
CreateOk == BOOLEAN

RECURSIVE SetToSeq(_)
\* The keys of a map as a list; the order is the runtime's choice.
SetToSeq(S) ==
  IF S = {} THEN <<>>
  ELSE LET x == CHOOSE y \in S : TRUE IN <<x>> \o SetToSeq(S \ {x})

Range(sq) == { sq[k] : k \in 1..Len(sq) }

\* The state main starts the domain loop's preparation in.
InitProgram ==
  /\ pc = "start"
  /\ i = 0
  /\ domain = <<>>
  /\ apiKeyIndex = 0
  /\ runCount = 0
  /\ domainSuccess = FALSE
  /\ finalUrlSet = {}
  /\ failedDomains = <<>>
  /\ urls = <<>>
  /\ finalUrls = <<>>
  /\ urlChannel = <<>>
  /\ logChan = <<>>
  /\ urlClosed = FALSE
  /\ logClosed = FALSE
  /\ wg = 0
  /\ logWg = 0
  /\ logOut = NoOutput
  /\ q = [s \in Sources |-> IdleQuerier]
  /\ hpc = "wait"
  /\ hStart = {}
  /\ outFile = IF oldUrls = <<>> THEN NoFile ELSE writeLinesToFile(oldUrls)
  /\ failedFile = NoFile
  /\ stdout = <<>>
  /\ proc = "running"
  /\ delivered = {}
  /\ faults = 0
  /\ slept = 0

\* The key lists of excluded sources are never read: they are left empty.
KeyConfigs ==
  { k \in [KeyedSources -> 0..MaxKeys] :
      \A s \in KeyedSources : s \in excludedMap => k[s] = 0 }

\* Whole runs: several lines, at most one source left enabled, servers that
\* answer 200 or not at all.
Init ==
  /\ silent \in BOOLEAN
  /\ excludedMap \in { e \in SUBSET Sources : Cardinality(Sources \ e) <= 1 }
  /\ keys \in KeyConfigs
  /\ nLines \in 0..MaxLines
  /\ server = PlainServer
  /\ oldUrls = <<>>
  /\ InitProgram

\* The fan-out and fan-in of one domain: one line, several sources at once,
\* every keyed source with its keys.
InitFan ==
  /\ silent \in BOOLEAN
  /\ excludedMap \in { e \in SUBSET Sources : Cardinality(Sources \ e) <= MaxEnabled }
  /\ keys = [s \in KeyedSources |-> IF s \in excludedMap THEN 0 ELSE MaxKeys]
  /\ nLines = 1
  /\ server = FanServer
  /\ oldUrls = <<>>
  /\ InitProgram

\* One domain and one source, against servers that may do anything, with or
\* without an output file left by an earlier run.
InitSource ==
  /\ silent \in BOOLEAN
  /\ excludedMap \in { e \in SUBSET Sources : Cardinality(Sources \ e) = 1 }
  /\ keys \in KeyConfigs
  /\ nLines = 1
  /\ server = AnyServer
  /\ oldUrls \in {<<>>, <<"u0">>}
  /\ InitProgram

\* Long runs: more lines, at most one source left enabled or the two keyed
\* sources that query with or without a key, servers that always answer 200.
InitLoop ==
  /\ silent \in BOOLEAN
  /\ \/ /\ excludedMap \in { e \in SUBSET Sources : Cardinality(Sources \ e) <= 1 }
        /\ keys \in KeyConfigs
     \/ /\ excludedMap = Sources \ {"otx", "hr"}
        /\ keys = [s \in KeyedSources |-> IF s \in excludedMap THEN 0 ELSE MaxKeys]
  /\ nLines \in 0..MaxCalmLines
  /\ server = CalmServer
  /\ oldUrls = <<>>
  /\ InitProgram

Running == proc = "running"

\* ---------------------------------------------------------------- the driver
\* main's check of the input, before the domain loop.
CheckDomains ==
  /\ Running
  /\ pc = "start"
  /\ IF nLines = 0
       THEN proc' = "fatal" /\ pc' = "end"
       ELSE proc' = proc /\ pc' = "loop"
  /\ UNCHANGED <<cfgVars, i, domain, apiKeyIndex, runCount, domainSuccess, urls,
                 finalUrls, accVars, chanVars, q, hVars, fileVars, delivered, faults, slept>>

\* The three "continue" paths at the head of the loop body.
IsSkipped(l) ==
  \/ TrimSpace(l) = <<>>
  \/ cleanDomainLine(TrimSpace(l)) = <<>>
  \/ ~isValidDomain(cleanDomainLine(TrimSpace(l)))

\* SkipLine as it would be if a skipped line advanced the key index.
SkipLineCounting ==
  /\ Running
  /\ pc = "loop"
  /\ i < nLines
  /\ \E l \in SampleLines : IsSkipped(l)
  /\ i' = i + 1
  /\ apiKeyIndex' = apiKeyIndex + 1
  /\ UNCHANGED <<cfgVars, pc, domain, runCount, domainSuccess, urls,
                 finalUrls, accVars, chanVars, q, hVars, fileVars, proc, delivered, faults, slept>>

SkipLine ==
  /\ Running
  /\ pc = "loop"
  /\ i < nLines
  /\ \E l \in SampleLines : IsSkipped(l)
  /\ i' = i + 1
  /\ UNCHANGED <<cfgVars, pc, domain, apiKeyIndex, runCount, domainSuccess, urls,
                 finalUrls, accVars, chanVars, q, hVars, fileVars, proc, delivered, faults, slept>>

\* A valid line: make the channels, start the log consumer and one goroutine
\* per source that is not excluded; with no source, close the channels at once.
Dispatch ==
  /\ Running
  /\ pc = "loop"
  /\ i < nLines
  /\ \E l \in SampleLines :
       /\ ~IsSkipped(l)
       /\ domain' = cleanDomainLine(TrimSpace(l))
  /\ urlChannel' = <<>>
  /\ logChan' = <<>>
  /\ logOut' = NoOutput
  /\ logWg' = 1
  /\ domainSuccess' = FALSE
  /\ runCount' = Cardinality(EnabledSources)
  /\ wg' = Cardinality(EnabledSources)
  /\ q' = [s \in Sources |->
             IF s \in EnabledSources THEN [IdleQuerier EXCEPT !.pc = "start"]
                                     ELSE IdleQuerier]
  /\ urlClosed' = (EnabledSources = {})
  /\ logClosed' = (EnabledSources = {})
  /\ pc' = IF EnabledSources = {} THEN "logwait" ELSE "wait"
  /\ UNCHANGED <<cfgVars, i, apiKeyIndex, urls, finalUrls, accVars, hVars,
                 fileVars, proc, delivered, faults, slept>>

\* Barrier as it would be if main did not wait for the sources.
BarrierNoWait ==
  /\ Running
  /\ pc = "wait"
  /\ urlClosed' = TRUE
  /\ logClosed' = TRUE
  /\ pc' = "logwait"
  /\ UNCHANGED <<cfgVars, i, domain, apiKeyIndex, runCount, domainSuccess, urls,
                 finalUrls, accVars, urlChannel, logChan, wg, logWg, logOut, q,
                 hVars, fileVars, proc, delivered, faults, slept>>

\* Barrier as it would be if it were released by the first Done.
BarrierAtFirstDone ==
  /\ Running
  /\ pc = "wait"
  /\ wg < runCount
  /\ urlClosed' = TRUE
  /\ logClosed' = TRUE
  /\ pc' = "logwait"
  /\ UNCHANGED <<cfgVars, i, domain, apiKeyIndex, runCount, domainSuccess, urls,
                 finalUrls, accVars, urlChannel, logChan, wg, logWg, logOut, q,
                 hVars, fileVars, proc, delivered, faults, slept>>

\* wg.Wait() returns; close(urlChannel); close(logChan).
Barrier ==
  /\ Running
  /\ pc = "wait"
  /\ wg = 0
  /\ urlClosed' = TRUE
  /\ logClosed' = TRUE
  /\ pc' = "logwait"
  /\ UNCHANGED <<cfgVars, i, domain, apiKeyIndex, runCount, domainSuccess, urls,
                 finalUrls, accVars, urlChannel, logChan, wg, logWg, logOut, q,
                 hVars, fileVars, proc, delivered, faults, slept>>

\* LogWait as it would be if main did not wait for the log consumer.
LogWaitSkipped ==
  /\ Running
  /\ pc = "logwait"
  /\ pc' = "drain"
  /\ UNCHANGED <<cfgVars, i, domain, apiKeyIndex, runCount, domainSuccess, urls,
                 finalUrls, accVars, chanVars, q, hVars, fileVars, proc, delivered,
                 faults, slept>>

\* logWg.Wait() returns.
LogWait ==
  /\ Running
  /\ pc = "logwait"
  /\ logWg = 0
  /\ pc' = "drain"
  /\ UNCHANGED <<cfgVars, i, domain, apiKeyIndex, runCount, domainSuccess, urls,
                 finalUrls, accVars, chanVars, q, hVars, fileVars, proc, delivered, faults, slept>>

\* "if urls != nil": a received list marks the domain as succeeded.
MarksSuccess(m) == ~IsNil(m)

\* DrainRecv as it would be if each result assigned domainSuccess.
DrainRecvLastWins ==
  /\ Running
  /\ pc = "drain"
  /\ urlChannel # <<>>
  /\ domainSuccess' = MarksSuccess(Head(urlChannel))
  /\ urls' = Head(urlChannel).s
  /\ urlChannel' = Tail(urlChannel)
  /\ pc' = IF Head(urlChannel).s = <<>> THEN "drain" ELSE "merge"
  /\ UNCHANGED <<cfgVars, i, domain, apiKeyIndex, runCount, finalUrls, accVars,
                 logChan, urlClosed, logClosed, wg, logWg, logOut, q, hVars,
                 fileVars, proc, delivered, faults, slept>>

\* The drain loop receives one list from the results channel.
DrainRecv ==
  /\ Running
  /\ pc = "drain"
  /\ urlChannel # <<>>
  /\ domainSuccess' = (domainSuccess \/ MarksSuccess(Head(urlChannel)))
  /\ urls' = Head(urlChannel).s
  /\ urlChannel' = Tail(urlChannel)
  /\ pc' = IF Head(urlChannel).s = <<>> THEN "drain" ELSE "merge"
  /\ UNCHANGED <<cfgVars, i, domain, apiKeyIndex, runCount, finalUrls, accVars,
                 logChan, urlClosed, logClosed, wg, logWg, logOut, q, hVars,
                 fileVars, proc, delivered, faults, slept>>

\* MapInsert as it would be if the map were replaced instead of extended.
MapInsertReplacing(set, u) == {u}

\* finalUrlSet[u] = struct{}{}
MapInsert(set, u) == set \cup {u}

\* One pass of the inner loop: insert the next URL of the received list.
Insert ==
  /\ Running
  /\ pc = "merge"
  /\ finalUrlSet' = MapInsert(finalUrlSet, Head(urls))
  /\ urls' = Tail(urls)
  /\ pc' = IF Tail(urls) = <<>> THEN "drain" ELSE "merge"
  /\ UNCHANGED <<cfgVars, i, domain, apiKeyIndex, runCount, domainSuccess,
                 finalUrls, failedDomains, chanVars, q, hVars, fileVars, proc,
                 delivered, faults, slept>>

\* The results channel is closed and empty: the drain loop ends.
DrainEnd ==
  /\ Running
  /\ pc = "drain"
  /\ urlChannel = <<>>
  /\ urlClosed
  /\ pc' = "decide"
  /\ UNCHANGED <<cfgVars, i, domain, apiKeyIndex, runCount, domainSuccess, urls,
                 finalUrls, accVars, chanVars, q, hVars, fileVars, proc, delivered, faults, slept>>

\* The loop body's variables (the channels, the wait-groups, runCount,
\* domainSuccess, the goroutines it started) end with the iteration.
LocalsGone ==
  /\ domain' = <<>>
  /\ runCount' = 0
  /\ domainSuccess' = FALSE
  /\ urlChannel' = <<>>
  /\ logChan' = <<>>
  /\ urlClosed' = FALSE
  /\ logClosed' = FALSE
  /\ wg' = 0
  /\ logWg' = 0
  /\ logOut' = NoOutput
  /\ q' = [s \in Sources |-> IdleQuerier]

\* DomainFailed as it would be without the runCount test.
DomainFailedAnyCount(ds, rc) == ~ds

\* "if !domainSuccess && runCount > 0"
DomainFailed(ds, rc) == ~ds /\ rc > 0

\* MoreDomains as it would be if the delay were never slept.
MoreDomainsNever(idx, n) == FALSE

\* "if i < len(domains)-1"
MoreDomains(idx, n) == idx < n - 1

\* Decide as it would be if the failed domain were assigned, not appended.
DecideOverwriting ==
  /\ Running
  /\ pc = "decide"
  /\ failedDomains' = IF DomainFailed(domainSuccess, runCount)
                        THEN <<domain>>
                        ELSE failedDomains
  /\ apiKeyIndex' = apiKeyIndex + 1
  /\ slept' = IF MoreDomains(i, nLines) THEN slept + 1 ELSE slept
  /\ i' = i + 1
  /\ pc' = "loop"
  /\ LocalsGone
  /\ UNCHANGED <<cfgVars, urls, finalUrls, finalUrlSet, hVars, fileVars, proc,
                 delivered, faults>>

\* The tail of the loop body: record a failed domain, advance the key index,
\* sleep requestDelay unless this was the last line.
Decide ==
  /\ Running
  /\ pc = "decide"
  /\ failedDomains' = IF DomainFailed(domainSuccess, runCount)
                        THEN Append(failedDomains, domain)
                        ELSE failedDomains
  /\ apiKeyIndex' = apiKeyIndex + 1
  /\ slept' = IF MoreDomains(i, nLines) THEN slept + 1 ELSE slept
  /\ i' = i + 1
  /\ pc' = "loop"
  /\ LocalsGone
  /\ UNCHANGED <<cfgVars, urls, finalUrls, finalUrlSet, hVars, fileVars, proc,
                 delivered, faults>>

\* After the loop: flatten the map.
Flatten ==
  /\ Running
  /\ pc = "loop"
  /\ i = nLines
  /\ finalUrls' = SetToSeq(finalUrlSet)
  /\ pc' = "wfailed"
  /\ UNCHANGED <<cfgVars, i, domain, apiKeyIndex, runCount, domainSuccess, urls,
                 accVars, chanVars, q, hVars, fileVars, proc, delivered, faults, slept>>

\* WriteFailed as it would be if a failed write were only logged.
WriteFailedContinues ==
  /\ Running
  /\ pc = "wfailed"
  /\ IF Len(failedDomains) > 0
       THEN \E ok \in CreateOk :
              /\ failedFile' = IF ok THEN writeLinesToFile(failedDomains) ELSE failedFile
              /\ pc' = "output"
              /\ proc' = proc
       ELSE /\ failedFile' = failedFile
            /\ pc' = "output"
            /\ proc' = proc
  /\ UNCHANGED <<cfgVars, i, domain, apiKeyIndex, runCount, domainSuccess, urls,
                 finalUrls, accVars, chanVars, q, hVars, outFile, stdout,
                 delivered, faults, slept>>

\* "if len(failedDomains) > 0 { writeLinesToFile("failed_domains.txt", ...) }"
WriteFailed ==
  /\ Running
  /\ pc = "wfailed"
  /\ IF Len(failedDomains) > 0
       THEN \E ok \in CreateOk :
              /\ failedFile' = IF ok THEN writeLinesToFile(failedDomains) ELSE failedFile
              /\ pc' = IF ok THEN "output" ELSE "end"
              /\ proc' = IF ok THEN proc ELSE "failedfatal"
       ELSE /\ failedFile' = failedFile
            /\ pc' = "output"
            /\ proc' = proc
  /\ UNCHANGED <<cfgVars, i, domain, apiKeyIndex, runCount, domainSuccess, urls,
                 finalUrls, accVars, chanVars, q, hVars, outFile, stdout,
                 delivered, faults, slept>>

\* Output as it would be if the URLs went to both destinations.
OutputBoth ==
  /\ Running
  /\ pc = "output"
  /\ stdout' = finalUrls
  /\ outFile' = writeLinesToFile(finalUrls)
  /\ pc' = "end"
  /\ proc' = "done"
  /\ UNCHANGED <<cfgVars, i, domain, apiKeyIndex, runCount, domainSuccess, urls,
                 finalUrls, accVars, chanVars, q, hVars, failedFile, delivered,
                 faults, slept>>

\* Print the URLs (silent) or write them to the output file; main returns,
\* or log.Fatalf when the file cannot be created.
Output ==
  /\ Running
  /\ pc = "output"
  /\ IF silent
       THEN stdout' = finalUrls /\ outFile' = outFile /\ proc' = "done"
       ELSE \E ok \in CreateOk :
              /\ outFile' = IF ok THEN writeLinesToFile(finalUrls) ELSE outFile
              /\ stdout' = stdout
              /\ proc' = IF ok THEN "done" ELSE "urlsfatal"
  /\ pc' = "end"
  /\ UNCHANGED <<cfgVars, i, domain, apiKeyIndex, runCount, domainSuccess, urls,
                 finalUrls, accVars, chanVars, q, hVars, failedFile, delivered,
                 faults, slept>>

\* --------------------------------------------------- the querier goroutines
drvAll == <<cfgVars, drvVars, accVars, hVars, fileVars, proc>>

\* The goroutine starts: the key check and http.NewRequest.  Only VT puts
\* configured text (the key) into the URL, so only its request can fail to
\* be constructed.
QStart(s) ==
  /\ Running
  /\ q[s].pc = "start"
  /\ \E reqErr \in (IF s = "vt" /\ keys[s] > 0 THEN BOOLEAN ELSE {FALSE}) :
       q' = [q EXCEPT ![s] =
               AfterStart(s, q[s], IF s \in KeyedSources THEN keys[s] ELSE 0,
                          apiKeyIndex, reqErr, silent)]
  /\ UNCHANGED <<drvAll, chanVars, delivered, faults, slept>>

\* One http.DefaultClient.Do of the fetcher's loop and everything the
\* goroutine computes from it up to its next channel send.
QDo(s) ==
  /\ Running
  /\ q[s].pc = "fetch"
  /\ q[s].pend = <<>>
  /\ \E o \in Outcomes(server, s, q[s].page, faults) :
       /\ q' = [q EXCEPT ![s] = AfterDo(s, q[s], o, silent)]
       /\ faults' = IF o.err THEN faults + 1 ELSE faults
  /\ UNCHANGED <<drvAll, chanVars, delivered, slept>>

\* logChan <- logMessage{...}: blocks while the buffer is full.
QSendLog(s) ==
  /\ Running
  /\ q[s].pend # <<>>
  /\ Len(logChan) < ChanCap
  /\ logChan' = Append(logChan, LogMsg(Head(q[s].pend), s))
  /\ q' = [q EXCEPT ![s].pend = Tail(@), ![s].logged = Append(@, Head(q[s].pend))]
  /\ UNCHANGED <<drvAll, urlChannel, urlClosed, logClosed, wg, logWg, logOut,
                 delivered, faults, slept>>

\* ch <- urls (or ch <- nil)
QSendResult(s) ==
  /\ Running
  /\ q[s].pc = "send"
  /\ q[s].pend = <<>>
  /\ Len(urlChannel) < ChanCap
  /\ urlChannel' = Append(urlChannel, q[s].res)
  /\ delivered' = delivered \cup Range(q[s].res.s)
  /\ q' = [q EXCEPT ![s].pc = "exit",
                     ![s].sent = @ + 1,
                     ![s].out = IF IsNil(q[s].res) THEN "absent" ELSE "list"]
  /\ UNCHANGED <<drvAll, logChan, urlClosed, logClosed, wg, logWg, logOut, faults,
                 slept>>

\* The deferred wg.Done().
\* QDone as it would be if the querier returned without wg.Done().
QDoneNoSignal(s) ==
  /\ Running
  /\ q[s].pc = "exit"
  /\ wg' = wg
  /\ q' = [q EXCEPT ![s] = [IdleQuerier EXCEPT !.pc = "done",
                                               !.sent = q[s].sent,
                                               !.dones = q[s].dones + 1,
                                               !.out = q[s].out,
                                               !.ended = q[s].ended,
                                               !.found = q[s].found,
                                               !.bad = q[s].bad,
                                               !.logged = q[s].logged]]
  /\ UNCHANGED <<drvAll, urlChannel, logChan, urlClosed, logClosed, logWg,
                 logOut, delivered, faults, slept>>

QDone(s) ==
  /\ Running
  /\ q[s].pc = "exit"
  /\ wg' = wg - 1
  /\ q' = [q EXCEPT ![s] = [IdleQuerier EXCEPT !.pc = "done",
                                               !.sent = q[s].sent,
                                               !.dones = q[s].dones + 1,
                                               !.out = q[s].out,
                                               !.ended = q[s].ended,
                                               !.found = q[s].found,
                                               !.bad = q[s].bad,
                                               !.logged = q[s].logged]]
  /\ UNCHANGED <<drvAll, urlChannel, logChan, urlClosed, logClosed, logWg,
                 logOut, delivered, faults, slept>>

\* LogRecv as it would be if the consumer kept only the latest line of a source.
LogRecvLatest ==
  /\ Running
  /\ logWg = 1
  /\ logChan # <<>>
  /\ logOut' = [logOut EXCEPT ![Head(logChan).Source] = <<Head(logChan).Type>>]
  /\ logChan' = Tail(logChan)
  /\ UNCHANGED <<drvAll, urlChannel, urlClosed, logClosed, wg, logWg, q, delivered, faults, slept>>

\* ---------------------------------------------------------- the log consumer
\* "for msg := range logChan { log.Printf(...) }"
LogRecv ==
  /\ Running
  /\ logWg = 1
  /\ logChan # <<>>
  /\ logOut' = [logOut EXCEPT ![Head(logChan).Source] = Append(@, Head(logChan).Type)]
  /\ logChan' = Tail(logChan)
  /\ UNCHANGED <<drvAll, urlChannel, urlClosed, logClosed, wg, logWg, q, delivered, faults, slept>>

\* The range loop ends on the closed, empty channel; deferred logWg.Done().
LogExit ==
  /\ Running
  /\ logWg = 1
  /\ logChan = <<>>
  /\ logClosed
  /\ logWg' = 0
  /\ UNCHANGED <<drvAll, urlChannel, logChan, urlClosed, logClosed, wg, logOut,
                 q, delivered, faults, slept>>

\* ------------------------------------------------------- the signal handler
\* <-sigChan returns and the handler's range over finalUrlSet begins.
Interrupt ==
  /\ Running
  /\ hpc = "wait"
  /\ pc # "start"
  /\ hpc' = "iter"
  /\ hStart' = finalUrlSet
  /\ UNCHANGED <<cfgVars, drvVars, accVars, chanVars, q, fileVars, proc,
                 delivered, faults, slept>>

\* HWriteUrls as it would be if the handler chose the destination by the
\* silent flag, as the final output does.
HWriteUrlsBySilent ==
  /\ Running
  /\ hpc = "iter"
  /\ IF silent
       THEN /\ \E added \in SUBSET (finalUrlSet \ hStart) :
                 stdout' = stdout \o SetToSeq(hStart \cup added)
            /\ outFile' = outFile
            /\ hpc' = "failed"
            /\ proc' = proc
       ELSE /\ stdout' = stdout
            /\ \E ok \in CreateOk :
                 IF ok
                   THEN /\ \E added \in SUBSET (finalUrlSet \ hStart) :
                             outFile' = writeLinesToFile(SetToSeq(hStart \cup added))
                        /\ hpc' = "failed"
                        /\ proc' = proc
                   ELSE /\ outFile' = outFile
                        /\ hpc' = "done"
                        /\ proc' = "urlsfatal"
  /\ hStart' = {}
  /\ UNCHANGED <<cfgVars, drvVars, accVars, chanVars, q, failedFile,
                 delivered, faults, slept>>

\* The range loop ends and writeLinesToFile(*outputFile, finalUrls) runs.
\* The loop has produced every key that was in the map when it began; a key
\* main inserted while it ran may have been produced or skipped.  When the
\* file cannot be created the handler ends the process (log.Fatalf).
HWriteUrls ==
  /\ Running
  /\ hpc = "iter"
  /\ \E ok \in CreateOk :
       IF ok
         THEN /\ \E added \in SUBSET (finalUrlSet \ hStart) :
                   outFile' = writeLinesToFile(SetToSeq(hStart \cup added))
              /\ hpc' = "failed"
              /\ proc' = proc
         ELSE /\ outFile' = outFile
              /\ hpc' = "done"
              /\ proc' = "urlsfatal"
  /\ hStart' = {}
  /\ UNCHANGED <<cfgVars, drvVars, accVars, chanVars, q, failedFile, stdout,
                 delivered, faults, slept>>

\* The failed-domain file, then os.Exit(0); log.Fatalf when the file cannot
\* be created.
HWriteFailed ==
  /\ Running
  /\ hpc = "failed"
  /\ IF Len(failedDomains) > 0
       THEN \E ok \in CreateOk :
              /\ failedFile' = IF ok THEN writeLinesToFile(failedDomains) ELSE failedFile
              /\ proc' = IF ok THEN "interrupted" ELSE "failedfatal"
       ELSE /\ failedFile' = failedFile
            /\ proc' = "interrupted"
  /\ hpc' = "done"
  /\ UNCHANGED <<cfgVars, drvVars, accVars, chanVars, q, hStart, outFile,
                 stdout, delivered, faults, slept>>

\* main writes finalUrlSet (or failedDomains) while the handler reads it,
\* with nothing ordering the two accesses.
DataRace ==
  \/ hpc = "iter" /\ pc = "merge"
  \/ hpc = "failed" /\ pc = "decide" /\ DomainFailed(domainSuccess, runCount)

\* The runtime detects the concurrent map iteration and map write and aborts
\* the process ("fatal error: concurrent map iteration and map write").
RaceFatal ==
  /\ Running
  /\ hpc = "iter"
  /\ pc = "merge"
  /\ proc' = "crashed"
  /\ UNCHANGED <<cfgVars, drvVars, accVars, chanVars, q, hVars, fileVars, delivered, faults, slept>>

\* The handler reads the slice header of failedDomains while main's append
\* is storing it: it can see the new length with the old array.  os.Create
\* has made the file when the walk over the mismatched header faults.
TornRead ==
  /\ Running
  /\ hpc = "failed"
  /\ pc = "decide"
  /\ DomainFailed(domainSuccess, runCount)
  /\ failedFile' = writeLinesToFile(<<>>)
  /\ proc' = "crashed"
  /\ UNCHANGED <<cfgVars, drvVars, accVars, chanVars, q, hVars, outFile, stdout,
                 delivered, faults, slept>>

Next ==
  \/ CheckDomains
  \/ SkipLine
  \/ Dispatch
  \/ Barrier
  \/ LogWait
  \/ DrainRecv
  \/ Insert
  \/ DrainEnd
  \/ Decide
  \/ Flatten
  \/ WriteFailed
  \/ Output
  \/ \E s \in Sources : QStart(s)
  \/ \E s \in Sources : QDo(s)
  \/ \E s \in Sources : QSendLog(s)
  \/ \E s \in Sources : QSendResult(s)
  \/ \E s \in Sources : QDone(s)
  \/ LogRecv
  \/ LogExit
  \/ Interrupt
  \/ HWriteUrls
  \/ HWriteFailed
  \/ RaceFatal
  \/ TornRead

Spec == Init /\ [][Next]_vars

SpecFan == InitFan /\ [][Next]_vars

SpecSource == InitSource /\ [][Next]_vars

SpecLoop == InitLoop /\ [][Next]_vars

\* The goroutines of one domain. The Go scheduler runs every runnable
\* goroutine eventually; a goroutine blocked on a channel operation or on a
\* wait group is not runnable, and its step is not enabled.
MainStep == Barrier \/ LogWait \/ DrainRecv \/ Insert \/ DrainEnd

Consumer == LogRecv \/ LogExit

Querier(s) == QStart(s) \/ QDo(s) \/ QSendLog(s) \/ QSendResult(s) \/ QDone(s)

Fairness ==
  /\ WF_vars(MainStep)
  /\ WF_vars(Consumer)
  /\ \A s \in Sources : WF_vars(Querier(s))

\* One line; a single source may meet MaxFaults transport errors, two
\* sources share one.
InitLive ==
  /\ silent \in BOOLEAN
  /\ excludedMap \in { e \in SUBSET Sources : Cardinality(Sources \ e) <= MaxEnabled }
  /\ keys = [s \in KeyedSources |-> IF s \in excludedMap THEN 0 ELSE MaxKeys]
  /\ nLines = 1
  /\ server = IF Cardinality(Sources \ excludedMap) <= 1
                THEN FanServer
                ELSE [FanServer EXCEPT !.errs = 1]
  /\ oldUrls = <<>>
  /\ InitProgram

SpecLive == InitLive /\ [][Next]_vars /\ Fairness

\* ------------------------------------------------------------------ claims
\* What normal completion wrote as the URL output.
Written == IF silent THEN stdout ELSE outFile.lines

\* The sources main started a goroutine for in the current iteration.
Dispatched == { s \in Sources : q[s].pc # "idle" }

\* The Types of the log messages source s has produced so far for the
\* current domain: printed, in the channel, or about to be sent.
LoggedTypes(s) ==
  Range(logOut[Tag(s)])
    \cup { logChan[k].Type : k \in { n \in 1..Len(logChan) : logChan[n].Source = Tag(s) } }
    \cup Range(q[s].pend)

\* The fetcher call of source s has returned to the querier.
Returned(s) == q[s].f.ret # "run"

\* C1: at normal completion the URLs written out are exactly the URLs of all
\* the lists the queriers delivered, each once; and a step that merges a URL
\* already in the global set changes nothing but the drain loop's position.
C1_WrittenIsUnion ==
  /\ [](proc = "done" =>
          /\ Range(Written) = delivered
          /\ Len(Written) = Cardinality(delivered))
  /\ [][(pc = "merge" /\ urls' = Tail(urls) /\ Head(urls) \in finalUrlSet) =>
          UNCHANGED <<cfgVars, i, domain, apiKeyIndex, runCount, domainSuccess,
                      finalUrls, accVars, chanVars, q, hVars, fileVars, proc>>]_vars

C1_Witness ==
  /\ proc = "done"
  /\ ~silent
  /\ Cardinality(delivered) = 2
  /\ Len(outFile.lines) = 2

\* C2: when the drain of a domain is over, a source that succeeded with zero
\* URLs has made domainSuccess true, so the domain is not recorded as failed.
C2_EmptySuccessCounts ==
  (pc = "decide" /\ \E s \in Sources : q[s].ended = "ok" /\ q[s].found = 0)
    => (domainSuccess /\ ~DomainFailed(domainSuccess, runCount))

\* C3: the step that ends a domain's iteration appends the domain to the
\* failed list exactly when a source was dispatched and no dispatched source
\* delivered a list; otherwise it leaves the failed list alone.
C3_FailedIffAllFailed ==
  [][(pc = "decide" /\ pc' = "loop") =>
       IF Dispatched # {} /\ \A s \in Dispatched : q[s].out # "list"
         THEN failedDomains' = Append(failedDomains, domain)
         ELSE failedDomains' = failedDomains]_vars

C3_Witness ==
  /\ pc = "decide"
  /\ domainSuccess
  /\ \E s1, s2 \in Dispatched : q[s1].out = "absent" /\ q[s2].out = "list"

\* C4: a fetcher call that saw only 500 responses has made three attempts
\* and returned the terminal failure.
C4_Retries5xx ==
  \A s \in Sources :
    (Returned(s) /\ q[s].f.hist # <<>>
       /\ \A k \in 1..Len(q[s].f.hist) : q[s].f.hist[k] = "500")
      => (q[s].f.attempts = retryAttempts /\ q[s].f.ret = "exhausted")

\* C5 as stated: a fetcher call whose first response was a 429 returns after
\* two attempts.
C5_Retries429 ==
  \A s \in Sources :
    (Returned(s) /\ q[s].f.hist # <<>> /\ q[s].f.hist[1] = "429")
      => q[s].f.attempts = 2

\* C5 as amended: a fetcher call whose first response was a 429 returns that
\* response after one attempt and no delay.
C5_NoRetryOn429 ==
  \A s \in Sources :
    (Returned(s) /\ q[s].f.hist # <<>> /\ q[s].f.hist[1] = "429")
      => /\ q[s].f.attempts = 1
         /\ q[s].f.sleeps = 0
         /\ q[s].f.ret \in {"ok", "clienterr"}

C5_Witness ==
  \E s \in Sources : Returned(s) /\ q[s].f.hist = <<"429">>

\* C6: a fetcher call whose first response was a 404 returns after one
\* attempt and no delay, with the response and an error.
C6_ClientErrorFails ==
  \A s \in Sources :
    (Returned(s) /\ q[s].f.hist # <<>> /\ q[s].f.hist[1] = "404")
      => /\ q[s].f.attempts = 1
         /\ q[s].f.sleeps = 0
         /\ q[s].f.ret = "clienterr"

\* C7: the file the interrupt handler wrote holds exactly the URLs that were
\* in the global set when the signal was received, and once the signal is
\* received main neither merges a URL nor dispatches a domain.
C7_InterruptSnapshot ==
  /\ [][(hpc = "iter" /\ hpc' = "failed")
          => (outFile'.exists /\ Range(outFile'.lines) = hStart)]_vars
  /\ [][hpc # "wait" =>
          /\ finalUrlSet' = finalUrlSet
          /\ ~(pc = "loop" /\ pc' \in {"wait", "logwait"})]_vars

\* C8: the handler never reads an accumulator while main is writing it.
C8_NoDataRace == ~DataRace

\* C9: a querier that has finished has sent exactly one message and called
\* wg.Done exactly once, and after the barrier the results channel holds one
\* message per dispatched source.
C9_OneMessageEach ==
  /\ \A s \in Sources : q[s].pc = "done" => (q[s].sent = 1 /\ q[s].dones = 1)
  /\ pc = "logwait" => Len(urlChannel) = runCount

\* C10: a querier whose request construction or fetch failed delivers the
\* absent result, and unless silent has produced an ERROR event.
C10_FailureIsAbsent ==
  \A s \in Sources :
    (q[s].ended = "err" /\ q[s].out # "none")
      => /\ q[s].out = "absent"
         /\ ~silent => "ERROR" \in LoggedTypes(s)

\* The Types of the lines the log consumer printed for source s.
Printed(s) == Range(logOut[Tag(s)])

\* C11: a source whose last response had a client-error status or a
\* malformed body sends the absent result, and no line of an error page is
\* ever in the global set.
C11_BadResponseIsAbsent ==
  /\ \A s \in Sources : (q[s].bad /\ q[s].out # "none") => q[s].out = "absent"
  /\ Range(ErrPage.items) \cap finalUrlSet = {}

\* C12: when not silent, by the time the domain is decided every source
\* whose query ended in a request-construction failure, exhausted retries, a
\* client-error response or a malformed body has had a WARNING or an ERROR
\* line printed.
C12_ErrorsAreLogged ==
  (pc = "decide" /\ ~silent) =>
    \A s \in Dispatched :
      (q[s].ended = "err" \/ q[s].bad) => Printed(s) \cap {"WARNING", "ERROR"} # {}

\* C13: in a silent run no log message is ever pending in a querier, in the
\* log channel or printed.
C13_SilentNoLogs ==
  silent =>
    /\ logChan = <<>>
    /\ logOut = NoOutput
    /\ \A s \in Sources : q[s].pend = <<>>

C13_Witness ==
  /\ silent
  /\ pc = "decide"
  /\ \E s \in Sources :
       q[s].ended = "err" /\ q[s].out = "absent" /\ q[s].dones = 1

C15_NoValidDomainIsFatal ==
  (pc = "end" /\ apiKeyIndex = 0 /\ hpc = "wait")
    => (proc = "fatal" /\ ~outFile.exists /\ stdout = <<>>)

\* C16: while main drains the results channel and decides the domain, the
\* log consumer has ended, no log message is waiting in the channel or in a
\* querier, and unless silent the closing event of every source that sent a
\* result has been printed; no result is received before that.
C16_LogsBeforeResults ==
  /\ [](pc \in {"drain", "merge", "decide"} =>
          /\ logWg = 0
          /\ logChan = <<>>
          /\ \A s \in Sources : q[s].pend = <<>>
          /\ ~silent =>
               \A s \in Dispatched :
                 /\ q[s].ended = "ok" => "SUCCESS" \in Printed(s)
                 /\ q[s].ended = "err" => "ERROR" \in Printed(s))
  /\ [][Len(urlChannel') < Len(urlChannel) => (logWg = 0 /\ logChan = <<>>)]_vars

C16_Witness ==
  /\ pc = "drain"
  /\ ~silent
  /\ Len(urlChannel) = 2
  /\ \E s \in Sources : Len(logOut[Tag(s)]) >= 2

\* The source goroutines that have started and not yet finished.
TasksRunning == { s \in Sources : q[s].pc \notin {"idle", "done"} }

\* C17: source tasks run only between a domain's dispatch and its barrier,
\* never more than four of them; the log consumer runs only until main's
\* wait for it returns; when the domain is decided its results have been
\* merged; and a domain is dispatched only when no task and no log consumer
\* of an earlier domain is left and nothing of it is left to merge.
C17_OneDomainAtATime ==
  /\ [](Cardinality(TasksRunning) <= 4)
  /\ [](pc # "wait" => TasksRunning = {})
  /\ [](pc \notin {"wait", "logwait"} => logWg = 0)
  /\ [](pc = "decide" => (urlChannel = <<>> /\ urls = <<>>))
  /\ [][(pc = "loop" /\ pc' \in {"wait", "logwait"}) =>
          /\ TasksRunning = {}
          /\ logWg = 0
          /\ urlChannel = <<>>
          /\ logChan = <<>>
          /\ urls = <<>>]_vars

C17_Witness ==
  /\ pc = "wait"
  /\ apiKeyIndex = 1
  /\ finalUrlSet # {}
  /\ \E s \in Sources : q[s].pc = "fetch"

\* C18: when a domain is dispatched, main has slept requestDelay once for
\* each domain processed before it, silent or not (so exactly once since
\* the previous dispatch), and skipping a line changes no count of delays.
C18_OneDelayBetweenDomains ==
  /\ [][(pc = "loop" /\ pc' \in {"wait", "logwait"}) => slept = apiKeyIndex]_vars
  /\ [][(pc = "loop" /\ pc' = "loop") => slept' = slept]_vars

C18_Witness ==
  /\ silent
  /\ pc = "wait"
  /\ i = 2
  /\ apiKeyIndex = 1
  /\ slept = 1

\* C19: the key index is 0 before the loop and changes only at the end of
\* a processed domain's iteration, by one, whatever the domain's outcome; a
\* keyed source with keys that has started its query holds the key at index
\* apiKeyIndex mod len(keys), inside the list; a source with no keys holds
\* none.
C19_RoundRobinKeys ==
  /\ [](pc = "start" => apiKeyIndex = 0)
  /\ [][apiKeyIndex' = IF pc = "decide" /\ pc' = "loop" THEN apiKeyIndex + 1
                                                       ELSE apiKeyIndex]_vars
  /\ [](\A s \in Sources :
          /\ q[s].key # -1 =>
               /\ s \in KeyedSources
               /\ keys[s] > 0
               /\ q[s].key \in 0..(keys[s] - 1)
               /\ q[s].key = apiKeyIndex % keys[s]
          /\ (s \in KeyedSources /\ keys[s] > 0 /\ q[s].pc = "fetch") => q[s].key # -1)

C19_Witness ==
  /\ apiKeyIndex = 2
  /\ keys["otx"] = 2
  /\ keys["hr"] = 2
  /\ q["otx"].pc = "fetch"
  /\ q["otx"].key = 0
  /\ q["hr"].pc = "fetch"
  /\ q["hr"].key = 0
  /\ failedDomains # <<>>

\* C20: once the run has completed or an interrupt has been handled,
\* failed_domains.txt exists exactly when the failed list is not empty, and
\* then holds the failed list, in order.
C20_FailedFileIffNonEmpty ==
  proc \in {"done", "interrupted", "urlsfatal"} =>
    IF failedDomains # <<>>
      THEN failedFile = writeLinesToFile(failedDomains)
      ELSE failedFile = NoFile

\* C21: the global set holds only URLs the queriers delivered; no step
\* removes a URL from it or an entry from the failed list, whose earlier
\* entries stay as a prefix; and the snapshot the interrupt handler writes
\* holds only URLs of the global set.
C21_AccumulatorsOnlyGrow ==
  /\ [](finalUrlSet \subseteq delivered)
  /\ [][/\ finalUrlSet \subseteq finalUrlSet'
        /\ Len(failedDomains) <= Len(failedDomains')
        /\ SubSeq(failedDomains', 1, Len(failedDomains)) = failedDomains]_vars
  /\ [][(hpc = "iter" /\ hpc' = "failed")
          => Range(outFile'.lines) \subseteq finalUrlSet']_vars

C21_Witness ==
  /\ proc = "done"
  /\ silent
  /\ Len(outFile.lines) = 1
  /\ Len(stdout) = 2
  /\ Range(outFile.lines) \subseteq Range(stdout)

\* C22: the step that skips a line moves to the next line and changes
\* nothing else: no goroutine is started, the failed list, the global set
\* and the key index stay as they were and the run goes on; the failed list
\* never holds more entries than lines have passed validation.
C22_SkippedLineChangesNothing ==
  /\ [][(pc = "loop" /\ pc' = "loop" /\ i' # i) =>
          /\ i' = i + 1
          /\ proc' = "running"
          /\ UNCHANGED <<failedDomains, finalUrlSet, apiKeyIndex, q, chanVars,
                         fileVars, slept>>]_vars
  /\ [](Len(failedDomains) <= apiKeyIndex)

C22_Witness ==
  /\ ~silent
  /\ pc = "wait"
  /\ i = 1
  /\ apiKeyIndex = 0
  /\ TasksRunning # {}

\* C23: when the run has completed or an interrupt has been handled, the
\* output file holds every URL it held when the program started.
C23_EarlierUrlsKept ==
  proc \in {"done", "interrupted"} => Range(oldUrls) \subseteq Range(outFile.lines)

\* C24: when an interrupt has been handled after at least one domain was
\* processed, the progress log exists.
C24_ProgressLogWritten ==
  (proc = "interrupted" /\ apiKeyIndex > 0)
    => "Ph.Sh_URL.log" \in FilesPresent(outFile, failedFile)

Count(seq, x) == Cardinality({ k \in 1..Len(seq) : seq[k] = x })

AllTransport(h) == \A k \in 1..Len(h) : h[k] = "transport"

\* C25: a call whose every attempt failed with a transport error has made
\* exactly retryAttempts attempts, has emitted one WARNING per failed attempt
\* when not silent (none when silent) and has returned the terminal failure;
\* a call that succeeded at attempt k after k-1 transport errors returned
\* after exactly k attempts and k-1 warnings. Every attempt that fails with
\* a transport error queues exactly one WARNING event of the calling source
\* when not silent, and none when silent.
C25_TransportRetries ==
  /\ [](\A s \in Sources :
          LET f == q[s].f
          IN /\ (Returned(s) /\ f.hist # <<>> /\ AllTransport(f.hist)) =>
                  /\ f.attempts = retryAttempts
                  /\ f.ret = "exhausted"
                  /\ f.warns = IF silent THEN 0 ELSE retryAttempts
             /\ (f.ret = "ok" /\ AllTransport(SubSeq(f.hist, 1, Len(f.hist) - 1))) =>
                  /\ f.attempts = Len(f.hist)
                  /\ f.attempts <= retryAttempts
                  /\ f.warns = IF silent THEN 0 ELSE f.attempts - 1)
  /\ [][\A s \in Sources :
          (/\ q[s].pc = "fetch"
           /\ q'[s].f.hist = Append(q[s].f.hist, "transport")) =>
            /\ q'[s].f.warns = q[s].f.warns + (IF silent THEN 0 ELSE 1)
            /\ Count(q'[s].pend, "WARNING") = IF silent THEN 0 ELSE 1]_vars

C25_Witness ==
  \E s \in Sources :
    /\ ~silent
    /\ q[s].f.ret = "exhausted"
    /\ q[s].f.hist = <<"transport", "transport", "transport">>
    /\ q[s].f.warns = 3
    /\ Count(q[s].pend, "WARNING") = 1

\* C26: a call that has returned after n attempts has slept n-1 times.
C26_DelaysOnlyBetweenAttempts ==
  \A s \in Sources : Returned(s) => q[s].f.sleeps = q[s].f.attempts - 1

\* C27: both channels of a domain are closed in one step, from the open
\* state, when the wait group is at zero and every dispatched querier has
\* signalled Done once; they stay closed until the domain's locals are gone;
\* a message is added to a channel only while it is open and only by a
\* querier that has not yet signalled Done.
C27_CloseAfterAllDone ==
  /\ [][((~urlClosed /\ urlClosed') \/ (~logClosed /\ logClosed')) =>
          /\ ~urlClosed /\ ~logClosed
          /\ urlClosed' /\ logClosed'
          /\ wg = 0
          /\ \A s \in Dispatched : q[s].pc = "done" /\ q[s].dones = 1]_vars
  /\ [][((urlClosed /\ ~urlClosed') \/ (logClosed /\ ~logClosed'))
          => (pc = "decide" /\ pc' = "loop")]_vars
  /\ [][Len(urlChannel') > Len(urlChannel) =>
          /\ ~urlClosed
          /\ \E s \in Sources : q[s].dones = 0 /\ q'[s].sent = q[s].sent + 1]_vars
  /\ [][Len(logChan') > Len(logChan) =>
          /\ ~logClosed
          /\ \E s \in Sources : q[s].dones = 0 /\ q'[s].logged # q[s].logged]_vars

C27_Witness ==
  /\ pc = "logwait"
  /\ urlClosed
  /\ logClosed
  /\ Len(urlChannel) = 2
  /\ Cardinality(Dispatched) = 2
  /\ \A s \in Dispatched : q[s].dones = 1

\* C28: under fair scheduling of the goroutines, with every request
\* returning and pagination bounded, a domain whose queriers were dispatched
\* reaches the drained state unless the process ends first: every querier
\* that was started signals Done, the barrier is released and the channels
\* are closed, and the log consumer terminates.
C28_DomainEventuallyDrained ==
  (pc = "wait") ~>
    \/ /\ pc = "decide"
       /\ \A s \in Dispatched : q[s].pc = "done" /\ q[s].dones = 1
       /\ urlClosed
       /\ logClosed
       /\ logWg = 0
       /\ urlChannel = <<>>
       /\ logChan = <<>>
    \/ ~Running

C28_Witness ==
  /\ pc = "decide"
  /\ Running
  /\ ~silent
  /\ \E s \in Sources :
       /\ q[s].ended = "err"
       /\ q[s].dones = 1
       /\ Len(q[s].logged) > ChanCap
       /\ logOut[Tag(s)] = q[s].logged

InFlight(s) ==
  LET sel == SelectSeq(logChan, LAMBDA m : m.Source = Tag(s))
  IN [k \in 1..Len(sel) |-> sel[k].Type]

\* C29: the lines printed for a source, followed by its events still in the
\* log channel, are always exactly the events the source has sent, in the
\* order it sent them; once the consumer has ended, the printed lines of each
\* source are exactly what it sent.
C29_LogsExactlyOnceInOrder ==
  /\ \A s \in Sources : q[s].logged = logOut[Tag(s)] \o InFlight(s)
  /\ pc \in {"drain", "merge", "decide"} =>
       \A s \in Sources : logOut[Tag(s)] = q[s].logged

C29_Witness ==
  /\ pc = "decide"
  /\ ~silent
  /\ \E s, r \in Sources :
       /\ s # r
       /\ Len(q[s].logged) >= 2
       /\ Len(q[r].logged) >= 2
       /\ logOut[Tag(s)] = q[s].logged
       /\ logOut[Tag(r)] = q[r].logged

\* C30: a querier whose query ended in a terminal Fetcher failure has no
\* SUCCESS event among its events of that query.
C30_SuccessOnlyOnSuccess ==
  \A s \in Sources : q[s].ended = "err" => "SUCCESS" \notin LoggedTypes(s)

\* The url_list json.Unmarshal leaves in the response struct.
URLList(b) == IF b.wf THEN b.items ELSE <<>>

RECURSIVE PagesConcat(_)
PagesConcat(ps) ==
  IF ps = <<>> THEN <<>> ELSE URLList(Head(ps).body) \o PagesConcat(Tail(ps))

\* C31: the responses the OTX querier has received are those of pages
\* 1, 2, ... in this order, one per page, and every one but the last declared
\* a next page; while it is fetching, the page it requests is the one after
\* the last response and all responses so far declared a next page; when it
\* ends on a page that declares none, its result is the concatenation in
\* page order of the URL lists of all pages, and it is sent once.
C31_OtxPagesInOrder ==
  LET o == q["otx"]
      n == Len(o.pages)
  IN /\ \A k \in 1..n :
          /\ o.pages[k].n = k
          /\ k < n => HasNext("otx", o.pages[k].body)
     /\ o.pc = "fetch" =>
          /\ o.page = n + 1
          /\ n > 0 => HasNext("otx", o.pages[n].body)
          /\ o.acc.s = PagesConcat(o.pages)
     /\ (o.pc \in {"send", "exit"} /\ o.ended = "ok") =>
          /\ n > 0
          /\ o.page = n
          /\ ~HasNext("otx", o.pages[n].body)
          /\ o.res.s = PagesConcat(o.pages)
     /\ o.sent <= 1
     /\ (o.pc = "exit" /\ o.ended = "ok") =>
          (o.sent = 1 /\ \E k \in 1..Len(urlChannel) : urlChannel[k] = o.res)

C31_Witness ==
  /\ q["otx"].pc = "exit"
  /\ q["otx"].ended = "ok"
  /\ Len(q["otx"].pages) = 2
  /\ q["otx"].pages[1].body.items = <<"u1">>
  /\ q["otx"].pages[2].body.items = <<"", "u2">>
  /\ urlChannel = << [nil |-> FALSE, s |-> <<"u1", "", "u2">>] >>

\* C32: when a domain has been drained, the global set of a one-domain run
\* is the union of the lists its sources sent and domainSuccess tells whether
\* some source sent a list, whatever the order of the results on the channel;
\* the step that ends the domain appends it to the failed list exactly when
\* sources ran and none sent a list.
C32_FanInDeterministic ==
  /\ []((pc = "decide" /\ nLines = 1) =>
          /\ finalUrlSet = delivered
          /\ domainSuccess = (\E s \in Dispatched : q[s].out = "list")
          /\ runCount = Cardinality(Dispatched))
  /\ [][(pc = "decide" /\ pc' = "loop") =>
          failedDomains' =
            IF \E s \in Dispatched : q[s].out = "list" THEN failedDomains
            ELSE IF Dispatched = {} THEN failedDomains
            ELSE Append(failedDomains, domain)]_vars

C32_Witness ==
  /\ pc = "drain"
  /\ Len(urlChannel) = 2
  /\ ~IsNil(urlChannel[1])
  /\ IsNil(urlChannel[2])
  /\ ~domainSuccess

\* C33: a run that has completed after processing n > 0 domains has slept
\* the inter-domain delay n - 1 times.
C33_NoDelayAfterLastDomain ==
  (proc = "done" /\ apiKeyIndex > 0) => slept = apiKeyIndex - 1

\* C34: at normal completion the failed-domain file is attempted before any
\* URL is output: when the list is not empty and the write fails the process
\* ends there, with the output file and standard output as they were, and
\* otherwise the run goes on to the output with the file written; a run that
\* ended this way without an interrupt has no output file and has printed
\* nothing. The handler attempts the failed-domain file only after it has
\* written the URL file, which that attempt leaves alone.
C34_FailedFileBeforeUrls ==
  /\ [][(pc = "wfailed" /\ pc' # "wfailed") =>
          IF proc' = "failedfatal"
            THEN /\ failedDomains # <<>>
                 /\ pc' = "end"
                 /\ UNCHANGED <<outFile, stdout, failedFile>>
            ELSE /\ pc' = "output"
                 /\ proc' = proc
                 /\ failedDomains # <<>> => failedFile' = writeLinesToFile(failedDomains)]_vars
  /\ []((proc = "failedfatal" /\ hpc = "wait") =>
          (pc = "end" /\ ~outFile.exists /\ stdout = <<>>))
  /\ [](hpc = "failed" => outFile.exists)
  /\ [][(hpc = "failed" /\ hpc' = "done") => outFile' = outFile]_vars

C34_Witness ==
  /\ proc = "failedfatal"
  /\ hpc = "wait"
  /\ finalUrlSet # {}
  /\ failedDomains # <<>>
  /\ ~failedFile.exists
  /\ ~outFile.exists
  /\ stdout = <<>>

====
